---- MODULE Spec2Model ----
(***************************************************************************)
(* A model of tools/convert_pngs_into_pdf.py: the PNG container parser     *)
(* (PngImage.load), the scanline defilterer (apply_filter,                 *)
(* paeth_predictor), the pixel compositor (PngImage.to_rgb) and the PDF    *)
(* document builder (make_pdf).  Byte strings are sequences of 0..255; a   *)
(* Python offset p (0-based) is the element p+1 of the sequence.           *)
(***************************************************************************)
EXTENDS Integers, Sequences, FiniteSets, TLC

----------------------------------------------------------------------------
(* Bounds of the model.                                                    *)

\* Largest image width drawn for the decoder's inputs.
MaxWidth == 2
\* Largest image height drawn for the decoder's inputs.
MaxHeight == 2
\* A decompressed pixel stream is drawn with up to this many bytes missing
\* from its end.
MaxShort == 3
\* Largest number of palette entries drawn (besides the 257-entry palette).
MaxPalette == 2
\* Longest row handed to apply_filter on its own.
MaxRowLen == 3
\* Longest RGB buffer handed to make_pdf on its own.
MaxRgbLen == 6

----------------------------------------------------------------------------
(* Byte strings.                                                           *)

Byte == 0..255

Min(a, b) == IF a <= b THEN a ELSE b

Max(a, b) == IF a >= b THEN a ELSE b

Abs(x) == IF x < 0 THEN -x ELSE x

\* Python's s[a:b] for 0 <= a, b (clamped to the length of s).
Slice(s, a, b) == SubSeq(s, a + 1, Min(b, Len(s)))

\* Python's buf[a:b] = v on a bytearray: the slice is REPLACED by v, so the
\* buffer changes length when Len(v) differs from the slice's length.
SetSlice(buf, a, b, v) ==
    LET lo == Min(a, Len(buf))
        hi == Max(lo, Min(b, Len(buf)))
    IN  SubSeq(buf, 1, lo) \o v \o SubSeq(buf, hi + 1, Len(buf))

\* bytearray(n): n zero bytes.
Zeros(n) == [i \in 1..n |-> 0]

RECURSIVE Concat(_)
\* b"".join(chunks)
Concat(chunks) ==
    IF chunks = <<>> THEN <<>> ELSE Head(chunks) \o Concat(Tail(chunks))

RECURSIVE Str(_)
\* str(n) / "{0}".format(n) for n >= 0: the decimal digits, as ASCII codes.
Str(n) == IF n < 10 THEN <<48 + n>> ELSE Str(n \div 10) \o <<48 + (n % 10)>>

\* f"{n:010}": decimal, zero-padded on the left to at least 10 characters.
Pad10(n) ==
    LET d == Str(n)
    IN  IF Len(d) >= 10 THEN d ELSE [i \in 1..(10 - Len(d)) |-> 48] \o d

RECURSIVE ParseDec(_)
\* The number a string of ASCII digits denotes (-1 when it holds a non-digit).
ParseDec(s) ==
    IF s = <<>> THEN 0
    ELSE LET d == s[Len(s)] - 48
             r == ParseDec(SubSeq(s, 1, Len(s) - 1))
         IN  IF d < 0 \/ d > 9 \/ r < 0 THEN -1 ELSE 10 * r + d

\* struct.pack(">I", n)
U32(n) == <<(n \div 16777216) % 256, (n \div 65536) % 256, (n \div 256) % 256, n % 256>>

\* struct.unpack(">I", b)[0] for a 4-byte b (below 2^31, the integers of the
\* model checker; every length and size of the model's inputs is).
UnpackU32(b) == ((b[1] * 256 + b[2]) * 256 + b[3]) * 256 + b[4]

----------------------------------------------------------------------------
(* zlib, as far as the program uses it.  The streams of the model are zlib *)
(* streams of stored (uncompressed) deflate blocks: a 2-byte header, the   *)
(* blocks (final flag and type, LEN and its complement little-endian, the  *)
(* data), and the big-endian Adler-32 of the data.                         *)

ADLER_MOD == 65521

RECURSIVE AdlerPair(_)
\* <<a, b>> of Adler-32 after the bytes of data.
AdlerPair(data) ==
    IF data = <<>> THEN <<1, 0>>
    ELSE LET p == AdlerPair(SubSeq(data, 1, Len(data) - 1))
             a == (p[1] + data[Len(data)]) % ADLER_MOD
         IN  <<a, (p[2] + a) % ADLER_MOD>>

\* The Adler-32 of data as the 4 bytes of the stream's trailer (big-endian).
Adler32(data) ==
    LET p == AdlerPair(data)
    IN  <<p[2] \div 256, p[2] % 256, p[1] \div 256, p[1] % 256>>

\* One stored block holding data (Len(data) < 65536).
StoredBlock(final, data) ==
    LET n == Len(data)
    IN  <<final, n % 256, n \div 256, 255 - (n % 256), 255 - (n \div 256)>> \o data

\* zlib.compress(data): a zlib stream that inflates to data.  (zlib's default
\* level picks other block types; the program only measures the stream and
\* copies it.)
ZlibCompress(data) == <<120, 1>> \o StoredBlock(1, data) \o Adler32(data)

ZlibError == [error |-> "zlib.error"]

RECURSIVE InflateBlocks(_, _, _)
\* The blocks of s from offset p on, out the data inflated so far.
InflateBlocks(s, p, out) ==
    IF Len(s) < p + 1 THEN ZlibError                     \* truncated
    ELSE LET hb    == s[p + 1]
             final == hb % 2
             btype == (hb \div 2) % 4
         IN  IF btype # 0 THEN ZlibError                 \* see StoredOnly
             ELSE IF Len(s) < p + 5 THEN ZlibError
             ELSE LET n  == s[p + 2] + 256 * s[p + 3]
                      nn == s[p + 4] + 256 * s[p + 5]
                  IN  IF n + nn # 65535 THEN ZlibError   \* invalid stored block lengths
                      ELSE IF Len(s) < p + 5 + n THEN ZlibError
                      ELSE LET o2 == out \o SubSeq(s, p + 6, p + 5 + n)
                               q  == p + 5 + n
                           IN  IF final = 0 THEN InflateBlocks(s, q, o2)
                               ELSE IF Len(s) < q + 4 THEN ZlibError
                               ELSE IF SubSeq(s, q + 1, q + 4) # Adler32(o2)
                                    THEN ZlibError       \* incorrect data check
                                    ELSE [error |-> "none", data |-> o2]

\* zlib.decompress(s): [error |-> "none", data |-> ...] or ZlibError.  Bytes
\* after the end of the stream are ignored.
ZlibDecompress(s) ==
    IF Len(s) < 2 THEN ZlibError
    ELSE IF s[1] % 16 # 8 \/ s[1] \div 16 > 7            \* method, window size
            \/ (s[1] * 256 + s[2]) % 31 # 0              \* header check
            \/ (s[2] \div 32) % 2 = 1                    \* preset dictionary
         THEN ZlibError
         ELSE InflateBlocks(s, 2, <<>>)

----------------------------------------------------------------------------
(* The literal texts of make_pdf, as ASCII codes.                           *)

\* b'%PDF-1.4\n%\xff\xff\xff\xff\n': the header line and the binary-marker comment
PDF_HEADER ==
    <<37, 80, 68, 70, 45, 49, 46, 52, 10, 37, 255, 255, 255, 255, 10>>

\* b'<< /Type /Catalog /Pages 2 0 R >>': object 1
CATALOG ==
    <<60, 60, 32, 47, 84, 121, 112, 101, 32, 47, 67, 97, 116, 97, 108, 111,
      103, 32, 47, 80, 97, 103, 101, 115, 32, 50, 32, 48, 32, 82, 32, 62, 62>>

\* b'<< /Type /Pages /Kids [3 0 R] /Count 1 >>': object 2
PAGES ==
    <<60, 60, 32, 47, 84, 121, 112, 101, 32, 47, 80, 97, 103, 101, 115, 32,
      47, 75, 105, 100, 115, 32, 91, 51, 32, 48, 32, 82, 93, 32, 47, 67, 111,
      117, 110, 116, 32, 49, 32, 62, 62>>

\* b'<< /Type /Page /Parent 2 0 R /Resources << /XObject << /Im0 4 0 R >> /ProcSet [/PDF /ImageC] >> /MediaBox [0 0 ': object 3, up to the width
PAGE_A ==
    <<60, 60, 32, 47, 84, 121, 112, 101, 32, 47, 80, 97, 103, 101, 32, 47,
      80, 97, 114, 101, 110, 116, 32, 50, 32, 48, 32, 82, 32, 47, 82, 101,
      115, 111, 117, 114, 99, 101, 115, 32, 60, 60, 32, 47, 88, 79, 98, 106,
      101, 99, 116, 32, 60, 60, 32, 47, 73, 109, 48, 32, 52, 32, 48, 32, 82,
      32, 62, 62, 32, 47, 80, 114, 111, 99, 83, 101, 116, 32, 91, 47, 80, 68,
      70, 32, 47, 73, 109, 97, 103, 101, 67, 93, 32, 62, 62, 32, 47, 77, 101,
      100, 105, 97, 66, 111, 120, 32, 91, 48, 32, 48, 32>>

\* b'] /Contents 5 0 R >>': object 3, after the height
PAGE_B ==
    <<93, 32, 47, 67, 111, 110, 116, 101, 110, 116, 115, 32, 53, 32, 48, 32,
      82, 32, 62, 62>>

\* b'<< /Type /XObject /Subtype /Image /Width ': object 4, up to the width
IMAGE_A ==
    <<60, 60, 32, 47, 84, 121, 112, 101, 32, 47, 88, 79, 98, 106, 101, 99,
      116, 32, 47, 83, 117, 98, 116, 121, 112, 101, 32, 47, 73, 109, 97, 103,
      101, 32, 47, 87, 105, 100, 116, 104, 32>>

\* b' /Height ': object 4, between width and height
IMAGE_B ==
    <<32, 47, 72, 101, 105, 103, 104, 116, 32>>

\* b' /ColorSpace /DeviceRGB /BitsPerComponent 8 /Filter /FlateDecode /Length ': object 4, between height and length
IMAGE_C ==
    <<32, 47, 67, 111, 108, 111, 114, 83, 112, 97, 99, 101, 32, 47, 68, 101,
      118, 105, 99, 101, 82, 71, 66, 32, 47, 66, 105, 116, 115, 80, 101, 114,
      67, 111, 109, 112, 111, 110, 101, 110, 116, 32, 56, 32, 47, 70, 105,
      108, 116, 101, 114, 32, 47, 70, 108, 97, 116, 101, 68, 101, 99, 111,
      100, 101, 32, 47, 76, 101, 110, 103, 116, 104, 32>>

\* b' >>\nstream\n': the end of a stream dictionary
STREAM_OPEN ==
    <<32, 62, 62, 10, 115, 116, 114, 101, 97, 109, 10>>

\* b'<< /Length ': object 5, up to the length
LENGTH_A ==
    <<60, 60, 32, 47, 76, 101, 110, 103, 116, 104, 32>>

\* b'\nendstream'
ENDSTREAM ==
    <<10, 101, 110, 100, 115, 116, 114, 101, 97, 109>>

\* b'q ': the content stream, up to the width
CONTENTS_Q ==
    <<113, 32>>

\* b' 0 0 ': the content stream, between width and height
CONTENTS_A ==
    <<32, 48, 32, 48, 32>>

\* b' 0 0 cm /Im0 Do Q': the content stream, after the height
CONTENTS_B ==
    <<32, 48, 32, 48, 32, 99, 109, 32, 47, 73, 109, 48, 32, 68, 111, 32, 81>>

\* b' 0 obj\n': what follows the object number in a marker
OBJ ==
    <<32, 48, 32, 111, 98, 106, 10>>

\* b'\nendobj\n'
ENDOBJ ==
    <<10, 101, 110, 100, 111, 98, 106, 10>>

\* b'xref\n0 ': the cross-reference section, up to the entry count
XREF_A ==
    <<120, 114, 101, 102, 10, 48, 32>>

\* b'0000000000 65535 f \n': the free-list head entry
FREE_ENTRY ==
    <<48, 48, 48, 48, 48, 48, 48, 48, 48, 48, 32, 54, 53, 53, 51, 53, 32,
      102, 32, 10>>

\* b' 00000 n \n': an in-use entry, after its offset
INUSE_TAIL ==
    <<32, 48, 48, 48, 48, 48, 32, 110, 32, 10>>

\* b'trailer\n'
TRAILER ==
    <<116, 114, 97, 105, 108, 101, 114, 10>>

\* b'<< /Size ': the trailer dictionary, up to the size
TRAILER_A ==
    <<60, 60, 32, 47, 83, 105, 122, 101, 32>>

\* b' /Root 1 0 R >>\nstartxref\n': the trailer, between the size and the xref offset
TRAILER_B ==
    <<32, 47, 82, 111, 111, 116, 32, 49, 32, 48, 32, 82, 32, 62, 62, 10, 115,
      116, 97, 114, 116, 120, 114, 101, 102, 10>>

\* b'\n%%EOF'
EOF_MARK ==
    <<10, 37, 37, 69, 79, 70>>

\* b'\n'
NL == <<10>>

\* b' '
SP == <<32>>


----------------------------------------------------------------------------
(* State.                                                                  *)

VARIABLES
    \* --- PngImage.load: the open file and the PngImage object
    stream,          \* the bytes of the file
    pos,             \* the read cursor of the file (bytes consumed)
    pc,              \* where the decoding of the file stands
    error,           \* "none", or the error that ended the decoding
    width, height, bit_depth, color_type, compression, filter_method, interlace,
    idat_chunks,     \* self._idat_chunks: the IDAT payloads, in the order read
    palette,         \* self._palette: None, or Some(sequence of <<r, g, b>>)
    transparency,    \* self._transparency: None, or Some(bytes)
    step,            \* history: the step of the decoding taken last
    chunk,           \* history: tag and payload of the chunk read last
    \* --- PngImage.to_rgb: its locals
    decompressed, channels, row_bytes, result, offset, out_offset, alpha_table,
    row,             \* rows done by the loop of to_rgb
    heap,            \* the bytearray objects of the row loop, by identity
    row_data,        \* the identity of the bytearray row_data names
    prev_row,        \* the identity of the bytearray prev_row names
    filter_calls,    \* history: what each call of apply_filter was handed and left
    composited,      \* history: result as the row loop left it
    returned,        \* None, or Some(the bytes to_rgb returned)
    \* --- apply_filter on its own
    f_pc, f_type, f_row, f_prev, f_bpp, f_out,
    \* --- make_pdf
    pdf_pc, rgb, pdf_width, pdf_height, image_stream, objects, xref_positions,
    output, xref_start,
    xref_written,    \* entries the entry loop of make_pdf has written
    \* --- convert_png and the check of main in front of it
    c_pc,            \* where the conversion of the file stands
    path,            \* the path convert_png is called with
    apply, remove_original,
    files,           \* the file system: path -> None, or Some(bytes of the file)
    pdf_path,        \* path.with_suffix(".pdf")
    original_size, pdf_bytes,
    convert_result,  \* None, or Some(the pair convert_png returned)
    files_before,    \* history: the file system when the conversion began
    file_ops,        \* history: the writes and deletions made, in order
    \* --- run_actor, run_learner and the queues between them
    a_pc,            \* where run_actor stands
    episode,         \* episodes run_actor has begun
    actor_step,      \* step of run_actor: steps done in the episode
    done,            \* done of run_actor, as the last step left it
    actor_params,    \* the parameters policy_actor holds, by the training step
                     \* they were taken at (0: the initial ones)
    actor_updated,   \* history: None, or Some(what the last step of the actor
                     \* loaded, and what the learner had sent last by then)
    l_pc,            \* where run_learner stands
    training_step,
    enough_data,     \* len(online_buffer) >= online_step_before_learning
    transitions_queue,   \* episodes sent and not yet received
    parameters_buffer,   \* parameters_queue: put, not yet sent by the feeder thread
    parameters_pipe,     \* parameters_queue: sent by the feeder thread, not yet got
    shutdown_event,
    last_sent        \* history: the parameters the learner sent last

pngVars == <<stream, pos, pc, error, width, height, bit_depth, color_type,
             compression, filter_method, interlace, idat_chunks, palette,
             transparency, step, chunk>>

rgbVars == <<decompressed, channels, row_bytes, result, offset, out_offset,
             alpha_table, row, heap, row_data, prev_row, filter_calls,
             composited, returned>>

filterVars == <<f_pc, f_type, f_row, f_prev, f_bpp, f_out>>

pdfVars == <<pdf_pc, rgb, pdf_width, pdf_height, image_stream, objects,
             xref_positions, output, xref_start, xref_written>>

convertVars == <<c_pc, path, apply, remove_original, files, pdf_path, original_size,
                 pdf_bytes, convert_result, files_before, file_ops>>

queueVars == <<a_pc, episode, actor_step, done, actor_params, actor_updated,
               l_pc, training_step, enough_data, transitions_queue,
               parameters_buffer, parameters_pipe, shutdown_event, last_sent>>

vars == <<pngVars, rgbVars, filterVars, pdfVars, convertVars, queueVars>>

\* Python's None and a present value.
None == <<>>

Some(x) == <<x>>

----------------------------------------------------------------------------
(* make_pdf(rgb, width, height).                                           *)

\* contents_stream = f"q {width} 0 0 {height} 0 0 cm /Im0 Do Q".encode()
contents_stream(w, h) ==
    CONTENTS_Q \o Str(w) \o CONTENTS_A \o Str(h) \o CONTENTS_B

\* The bodies the five add_object calls append, in order.
pdf_objects(img, w, h) ==
    << CATALOG,
       PAGES,
       PAGE_A \o Str(w) \o SP \o Str(h) \o PAGE_B,
       IMAGE_A \o Str(w) \o IMAGE_B \o Str(h) \o IMAGE_C \o Str(Len(img))
           \o STREAM_OPEN \o img \o ENDSTREAM,
       LENGTH_A \o Str(Len(contents_stream(w, h))) \o STREAM_OPEN
           \o contents_stream(w, h) \o ENDSTREAM >>

\* f"{obj_number} 0 obj\n"
obj_marker(n) == Str(n) \o OBJ

\* A recording one byte late: the offset taken as a 1-based position.
marker_offset_late(out) == Len(out) + 1

\* The offset the object loop records for the object it is about to write.
marker_offset(out) == Len(out)

\* One in-use cross-reference entry: f"{pos:010} 00000 n \n"
xref_entry(p) == Pad10(p) \o INUSE_TAIL

\* f"xref\n0 {len(objects) + 1}\n"
xref_head(objs) == XREF_A \o Str(Len(objs) + 1) \o NL

\* A trailer whose startxref points past the "xref" line, at the subsection head.
trailer_text_past_keyword(objs, start) ==
    TRAILER_A \o Str(Len(objs) + 1) \o TRAILER_B \o Str(start + 5) \o EOF_MARK

\* "<< /Size {0} /Root 1 0 R >>\nstartxref\n{1}\n%%EOF"
trailer_text(objs, start) ==
    TRAILER_A \o Str(Len(objs) + 1) \o TRAILER_B \o Str(start) \o EOF_MARK

\* Lines 215-248: compress the pixels, build the object bodies, start the
\* output with the header.
MakePdfObjects ==
    /\ UNCHANGED <<pngVars, rgbVars, filterVars, convertVars, queueVars>>
    /\ pdf_pc = "start"
    /\ image_stream' = ZlibCompress(rgb)
    /\ objects' = pdf_objects(ZlibCompress(rgb), pdf_width, pdf_height)
    /\ xref_positions' = <<>>
    /\ output' = PDF_HEADER
    /\ pdf_pc' = "objects"
    /\ UNCHANGED <<rgb, pdf_width, pdf_height, xref_start, xref_written>>

\* Lines 250-254: one iteration of the object loop.
WriteObject ==
    /\ UNCHANGED <<pngVars, rgbVars, filterVars, convertVars, queueVars>>
    /\ pdf_pc = "objects"
    /\ Len(xref_positions) < Len(objects)
    /\ LET obj_number == Len(xref_positions) + 1
       IN  /\ xref_positions' = Append(xref_positions, marker_offset(output))
           /\ output' = output \o obj_marker(obj_number) \o objects[obj_number]
                               \o ENDOBJ
    /\ UNCHANGED <<pdf_pc, rgb, pdf_width, pdf_height, image_stream, objects,
                   xref_start, xref_written>>

\* Lines 256-258: the head of the cross-reference section and its free entry.
WriteXrefHead ==
    /\ UNCHANGED <<pngVars, rgbVars, filterVars, convertVars, queueVars>>
    /\ pdf_pc = "objects"
    /\ Len(xref_positions) = Len(objects)
    /\ xref_start' = Len(output)
    /\ output' = output \o xref_head(objects) \o FREE_ENTRY
    /\ pdf_pc' = "xref"
    /\ xref_written' = 0
    /\ UNCHANGED <<rgb, pdf_width, pdf_height, image_stream, objects,
                   xref_positions>>

\* Lines 259-260: one iteration of the entry loop.
WriteXrefEntry ==
    /\ UNCHANGED <<pngVars, rgbVars, filterVars, convertVars, queueVars>>
    /\ pdf_pc = "xref"
    /\ xref_written < Len(xref_positions)
    /\ output' = output \o xref_entry(xref_positions[xref_written + 1])
    /\ xref_written' = xref_written + 1
    /\ UNCHANGED <<pdf_pc, rgb, pdf_width, pdf_height, image_stream, objects,
                   xref_positions, xref_start>>

\* Lines 261-266: the trailer; make_pdf returns bytes(output).
WriteTrailer ==
    /\ UNCHANGED <<pngVars, rgbVars, filterVars, convertVars, queueVars>>
    /\ pdf_pc = "xref"
    /\ xref_written = Len(xref_positions)
    /\ output' = output \o TRAILER \o trailer_text(objects, xref_start)
    /\ pdf_pc' = "done"
    /\ UNCHANGED <<rgb, pdf_width, pdf_height, image_stream, objects,
                   xref_positions, xref_start, xref_written>>

MakePdfNext ==
    \/ MakePdfObjects
    \/ WriteObject
    \/ WriteXrefHead
    \/ WriteXrefEntry
    \/ WriteTrailer

----------------------------------------------------------------------------
(* The PNG container: PngImage.load.                                       *)

\* b"\x89PNG\r\n\x1a\n"
PNG_SIGNATURE == <<137, 80, 78, 71, 13, 10, 26, 10>>

\* b"IHDR"
IHDR == <<73, 72, 68, 82>>

\* b"IDAT"
IDAT == <<73, 68, 65, 84>>

\* b"PLTE"
PLTE == <<80, 76, 84, 69>>

\* b"tRNS"
tRNS == <<116, 82, 78, 83>>

\* b"IEND"
IEND == <<73, 69, 78, 68>>

\* The errors the specification declares (raised as SystemExit by the code).
DeclaredErrors ==
    {"SignatureError", "UnsupportedFormatError", "MissingDataError",
     "MalformedChunkError", "PaletteIndexOutOfRangeError", "FilterTypeError"}

\* Exceptions of the Python runtime and of zlib that the code does not catch.
UndeclaredErrors == {"struct.error", "IndexError", "ValueError", "zlib.error"}

\* stream.read(n) at cursor p: the bytes read (fewer than n at the end of file).
Read(s, p, n) == Slice(s, p, p + n)

\* The header fields as struct.unpack(">IIBBBBB", data) yields them.
unpack_ihdr(data) ==
    [width         |-> UnpackU32(SubSeq(data, 1, 4)),
     height        |-> UnpackU32(SubSeq(data, 5, 8)),
     bit_depth     |-> data[9],
     color_type    |-> data[10],
     compression   |-> data[11],
     filter_method |-> data[12],
     interlace     |-> data[13]]

\* How _parse_ihdr(data) ends: struct.unpack raises struct.error unless data
\* holds exactly 13 bytes; the compression parameters are checked after the
\* fields are assigned.
parse_ihdr(data) ==
    IF Len(data) # 13 THEN "struct.error"
    ELSE IF unpack_ihdr(data).compression # 0
            \/ unpack_ihdr(data).filter_method # 0
         THEN "UnsupportedFormatError"
         ELSE "none"

\* How _parse_palette(data) ends.
parse_palette(data) ==
    IF Len(data) % 3 # 0 THEN "MalformedChunkError"
    ELSE IF Len(data) \div 3 = 0 \/ Len(data) \div 3 > 256
         THEN "MalformedChunkError"
         ELSE "none"

\* [tuple(data[i : i + 3]) for i in range(0, len(data), 3)]
palette_entries(data) ==
    [k \in 1..(Len(data) \div 3) |-> SubSeq(data, 3 * k - 2, 3 * k)]

\* The checks after the loop without the one on the interlace method.
load_checks_no_interlace(idats, depth, lace, ctype, pal) ==
    IF idats = <<>> THEN "MissingDataError"
    ELSE IF depth # 8 THEN "UnsupportedFormatError"
    ELSE IF ctype \notin {2, 3, 6} THEN "UnsupportedFormatError"
    ELSE IF ctype = 3 /\ pal = None THEN "MissingDataError"
    ELSE "none"

\* How the checks after the chunk loop end (lines 69-79), in their order.
load_checks(idats, depth, lace, ctype, pal) ==
    IF idats = <<>> THEN "MissingDataError"
    ELSE IF depth # 8 THEN "UnsupportedFormatError"
    ELSE IF lace # 0 THEN "UnsupportedFormatError"
    ELSE IF ctype \notin {2, 3, 6} THEN "UnsupportedFormatError"
    ELSE IF ctype = 3 /\ pal = None THEN "MissingDataError"
    ELSE "none"

\* PngImage.__init__ (lines 30-41).
PngInit ==
    /\ width = 0 /\ height = 0 /\ bit_depth = 0 /\ color_type = 0
    /\ compression = 0 /\ filter_method = 0 /\ interlace = 0
    /\ idat_chunks = <<>>
    /\ palette = None
    /\ transparency = None

headerVars == <<width, height, bit_depth, color_type, compression,
                filter_method, interlace>>

\* A chunk loop no tag ends.
ends_loop_never(chunk_type) == FALSE

\* Lines 66-67: the tag that breaks out of the chunk loop.
ends_loop(chunk_type) == chunk_type = IEND

\* Lines 45-47: the signature.
LoadSignature ==
    /\ UNCHANGED <<filterVars, pdfVars, convertVars, queueVars>>
    /\ pc = "signature"
    /\ IF Read(stream, 0, 8) # PNG_SIGNATURE
       THEN /\ pc' = "failed"
            /\ error' = "SignatureError"
       ELSE /\ pc' = "chunks"
            /\ error' = error
    /\ pos' = Min(8, Len(stream))
    /\ step' = "signature"
    /\ UNCHANGED <<stream, headerVars, idat_chunks, palette, transparency, chunk>>
    /\ UNCHANGED rgbVars

\* Lines 49-67: one iteration of the chunk loop.
LoadChunk ==
    /\ UNCHANGED <<filterVars, pdfVars, convertVars, queueVars>>
    /\ pc = "chunks"
    /\ LET length_bytes == Read(stream, pos, 4)
       IN  IF Len(length_bytes) = 0
           THEN \* break: end of file
                /\ pc' = "checks"
                /\ chunk' = None
                /\ UNCHANGED <<pos, error, headerVars, idat_chunks, palette,
                               transparency>>
           ELSE IF Len(length_bytes) < 4
           THEN \* struct.unpack(">I", ...) needs 4 bytes
                /\ pc' = "failed"
                /\ error' = "struct.error"
                /\ pos' = Len(stream)
                /\ chunk' = None
                /\ UNCHANGED <<headerVars, idat_chunks, palette, transparency>>
           ELSE LET length     == UnpackU32(length_bytes)
                    chunk_type == Read(stream, pos + 4, 4)
                    data       == Read(stream, pos + 8, length)
                    ends       == IF chunk_type = IHDR THEN parse_ihdr(data)
                                  ELSE IF chunk_type = PLTE THEN parse_palette(data)
                                  ELSE "none"
                IN  /\ pos' = Min(pos + 8 + length + 4, Len(stream))
                    /\ chunk' = Some([tag |-> chunk_type, data |-> data])
                    /\ error' = ends
                    /\ pc' = IF ends # "none" THEN "failed"
                             ELSE IF ends_loop(chunk_type) THEN "checks"
                             ELSE "chunks"
                    /\ IF chunk_type = IHDR /\ Len(data) = 13
                       THEN /\ width' = unpack_ihdr(data).width
                            /\ height' = unpack_ihdr(data).height
                            /\ bit_depth' = unpack_ihdr(data).bit_depth
                            /\ color_type' = unpack_ihdr(data).color_type
                            /\ compression' = unpack_ihdr(data).compression
                            /\ filter_method' = unpack_ihdr(data).filter_method
                            /\ interlace' = unpack_ihdr(data).interlace
                       ELSE UNCHANGED headerVars
                    /\ idat_chunks' = IF chunk_type = IDAT
                                      THEN Append(idat_chunks, data)
                                      ELSE idat_chunks
                    /\ palette' = IF chunk_type = PLTE /\ ends = "none"
                                  THEN Some(palette_entries(data))
                                  ELSE palette
                    /\ transparency' = IF chunk_type = tRNS THEN Some(data)
                                       ELSE transparency
    /\ step' = "chunk"
    /\ UNCHANGED stream
    /\ UNCHANGED rgbVars

\* Lines 69-79: the checks after the loop; load returns when all pass.
LoadChecks ==
    /\ UNCHANGED <<filterVars, pdfVars, convertVars, queueVars>>
    /\ pc = "checks"
    /\ LET ends == load_checks(idat_chunks, bit_depth, interlace, color_type,
                               palette)
       IN  /\ error' = ends
           /\ pc' = IF ends = "none" THEN "loaded" ELSE "failed"
    /\ step' = "checks"
    /\ UNCHANGED <<stream, pos, headerVars, idat_chunks, palette, transparency,
                   chunk>>
    /\ UNCHANGED rgbVars

----------------------------------------------------------------------------
(* The scanline defilterer: apply_filter and paeth_predictor.              *)

\* The predictor with its last tie decided for the upper-left byte.
paeth_predictor_tie(a, b, c) ==
    LET p  == a + b - c
        pa == Abs(p - a)
        pb == Abs(p - b)
        pcc == Abs(p - c)
    IN  IF pa <= pb /\ pa <= pcc THEN a
        ELSE IF pb < pcc THEN b
        ELSE c

paeth_predictor(a, b, c) ==
    LET p  == a + b - c
        pa == Abs(p - a)
        pb == Abs(p - b)
        pcc == Abs(p - c)
    IN  IF pa <= pb /\ pa <= pcc THEN a
        ELSE IF pb <= pcc THEN b
        ELSE c

\* What one iteration of a filter loop adds to row[i] (i 0-based), reading the
\* bytearrays as they are at that moment.
filter_addend(filter_type, rowbuf, prevbuf, bpp, i) ==
    LET left    == IF i >= bpp THEN rowbuf[i - bpp + 1] ELSE 0
        up      == prevbuf[i + 1]
        up_left == IF i >= bpp THEN prevbuf[i - bpp + 1] ELSE 0
    IN  CASE filter_type = 1 -> left
          [] filter_type = 2 -> up
          [] filter_type = 3 -> (left + up) \div 2
          [] filter_type = 4 -> paeth_predictor(left, up, up_left)

RECURSIVE filter_loop(_, _, _, _, _, _)
\* The loop "for i in range(len(row))" from iteration i on, on the heap h of
\* bytearrays: r is the identity of row, p the identity of prev_row (the same
\* object when the two names alias).
filter_loop(h, r, p, filter_type, bpp, i) ==
    IF i >= Len(h[r]) THEN h
    ELSE LET v == (h[r][i + 1] + filter_addend(filter_type, h[r], h[p], bpp, i)) % 256
         IN  filter_loop([h EXCEPT ![r][i + 1] = v], r, p, filter_type, bpp, i + 1)

\* apply_filter(filter_type, row, prev_row, channels): the heap it leaves, and
\* how it ends.
apply_filter(h, r, p, filter_type, bpp) ==
    IF filter_type = 0 THEN [error |-> "none", heap |-> h]
    ELSE IF filter_type \in 1..4
         THEN [error |-> "none", heap |-> filter_loop(h, r, p, filter_type, bpp, 0)]
         ELSE [error |-> "FilterTypeError", heap |-> h]

----------------------------------------------------------------------------
(* The pixel compositor: PngImage.to_rgb.                                  *)

WHITE == <<255, 255, 255>>

\* The blend without its rounding term: it truncates.
blend_truncating(c, a) == (c * a + 255 * (255 - a)) \div 255

\* (c * a + 255 * (255 - a) + 127) // 255
blend(c, a) == (c * a + 255 * (255 - a) + 127) \div 255

\* Lines 129-136 and 147-154: the three bytes written for a pixel of colour
\* <<r, g, b>> and alpha a.
composite_pixel(rgbv, a) ==
    IF a = 255 THEN rgbv
    ELSE IF a = 0 THEN WHITE
    ELSE <<blend(rgbv[1], a), blend(rgbv[2], a), blend(rgbv[3], a)>>

\* Writing the pixel at out_offset: a slice assignment when a is 255 or 0,
\* three item assignments otherwise.
write_pixel(res, out, rgbv, a) ==
    IF a = 255 \/ a = 0
    THEN [error |-> "none", result |-> SetSlice(res, out, out + 3, composite_pixel(rgbv, a))]
    ELSE IF out + 2 < Len(res)
         THEN [error |-> "none",
               result |-> [res EXCEPT ![out + 1] = blend(rgbv[1], a),
                                      ![out + 2] = blend(rgbv[2], a),
                                      ![out + 3] = blend(rgbv[3], a)]]
         ELSE [error |-> "IndexError", result |-> res]

\* Lines 106-113: the alpha of each palette index.
make_alpha_table(pal, trns) ==
    [k \in 1..Len(pal) |->
        IF trns # None /\ trns[1] # <<>> /\ k <= Len(trns[1])
        THEN trns[1][k] ELSE 255]

RECURSIVE composite_rgba(_, _, _, _, _)
\* Lines 126-137 from pixel px on.
composite_rgba(res, out, rowbuf, w, px) ==
    IF px >= w THEN [error |-> "none", result |-> res, out_offset |-> out]
    ELSE LET quad == Slice(rowbuf, px * 4, px * 4 + 4)
         IN  IF Len(quad) # 4
             THEN [error |-> "ValueError", result |-> res, out_offset |-> out]
             ELSE LET wr == write_pixel(res, out, SubSeq(quad, 1, 3), quad[4])
                  IN  IF wr.error # "none"
                      THEN [error |-> wr.error, result |-> res, out_offset |-> out]
                      ELSE composite_rgba(wr.result, out + 3, rowbuf, w, px + 1)

\* A bound one too low: the last palette entry counts as out of range.
palette_in_range_strict(pal, index) == index < Len(pal) - 1

\* self._palette[index] (lines 142-145): the IndexError is turned into the
\* palette error.
palette_in_range(pal, index) == index < Len(pal)

RECURSIVE composite_indexed(_, _, _, _, _, _, _)
\* Lines 138-155 from pixel px on.
composite_indexed(res, out, rowbuf, w, pal, alphas, px) ==
    IF px >= w THEN [error |-> "none", result |-> res, out_offset |-> out]
    ELSE IF px >= Len(rowbuf)
         THEN [error |-> "IndexError", result |-> res, out_offset |-> out]
         ELSE LET index == rowbuf[px + 1]
              IN  IF ~palette_in_range(pal, index)
                  THEN [error |-> "PaletteIndexOutOfRangeError", result |-> res,
                        out_offset |-> out]
                  ELSE LET wr == write_pixel(res, out, pal[index + 1], alphas[index + 1])
                       IN  IF wr.error # "none"
                           THEN [error |-> wr.error, result |-> res, out_offset |-> out]
                           ELSE composite_indexed(wr.result, out + 3, rowbuf, w, pal,
                                                  alphas, px + 1)

\* Lines 123-155: compositing one reconstructed row into result.
composite_row(res, out, rowbuf, ch, w, rb, pal, alphas) ==
    IF ch = 3
    THEN [error |-> "none", result |-> SetSlice(res, out, out + rb, rowbuf),
          out_offset |-> out + rb]
    ELSE IF ch = 4 THEN composite_rgba(res, out, rowbuf, w, 0)
    ELSE composite_indexed(res, out, rowbuf, w, pal, alphas, 0)

\* tuple(self._transparency[:3])
transparent_rgb(trns) == Slice(trns, 0, 3)

RECURSIVE key_pass(_, _, _, _)
\* Lines 162-165 from pixel px on.
key_pass(res, key, n, px) ==
    IF px >= n THEN res
    ELSE LET base == px * 3
         IN  IF Slice(res, base, base + 3) = key
             THEN key_pass(SetSlice(res, base, base + 3, WHITE), key, n, px + 1)
             ELSE key_pass(res, key, n, px + 1)

\* The transparency pass left out.
transparency_pass_skipped(res, ch, trns, n) == res

\* Lines 159-165: the transparency pass over the composited buffer.
transparency_pass(res, ch, trns, n) ==
    IF ch = 3 /\ trns # None /\ trns[1] # <<>>
    THEN key_pass(res, transparent_rgb(trns[1]), n, 0)
    ELSE res

\* The identity of the bytearray the row loop builds for row k (0-based): a
\* new object each iteration; identity 0 is the initial prev_row.
new_row_data(k) == k + 1

\* prev_row never replaced: it stays the buffer it named before the row.
next_prev_row_stale(row_id, prev_id) == prev_id

\* Line 157: what prev_row names after a row is done.
next_prev_row(row_id, prev_id) == row_id

\* Lines 97-113: inflate the data chunks and set the locals up.
ToRgbBegin ==
    /\ UNCHANGED <<filterVars, pdfVars, convertVars, queueVars>>
    /\ pc = "loaded"
    /\ LET z  == ZlibDecompress(Concat(idat_chunks))
           ch == IF color_type = 3 THEN 1 ELSE IF color_type = 2 THEN 3 ELSE 4
       IN  IF z.error # "none"
           THEN /\ pc' = "failed"
                /\ error' = z.error
                /\ UNCHANGED rgbVars
           ELSE /\ pc' = "rows"
                /\ error' = error
                /\ decompressed' = z.data
                /\ channels' = ch
                /\ row_bytes' = width * ch
                /\ result' = Zeros(width * height * 3)
                /\ heap' = (0 :> Zeros(width * ch))
                /\ prev_row' = 0
                /\ row_data' = row_data
                /\ offset' = 0
                /\ out_offset' = 0
                /\ alpha_table' = IF ch = 1
                                  THEN Some(make_alpha_table(palette[1], transparency))
                                  ELSE None
                /\ row' = 0
                /\ UNCHANGED <<filter_calls, composited, returned>>
    /\ step' = "begin"
    /\ UNCHANGED <<stream, pos, headerVars, idat_chunks, palette, transparency,
                   chunk>>

\* Lines 115-157: one iteration of the row loop.
ToRgbRow ==
    /\ UNCHANGED <<filterVars, pdfVars, convertVars, queueVars>>
    /\ pc = "rows"
    /\ row < height
    /\ IF offset >= Len(decompressed)
       THEN \* decompressed[offset]
            /\ pc' = "failed"
            /\ error' = "IndexError"
            /\ UNCHANGED rgbVars
       ELSE LET filter_type == decompressed[offset + 1]
                rid   == new_row_data(row)
                raw   == Slice(decompressed, offset + 1, offset + 1 + row_bytes)
                h1    == (rid :> raw) @@ heap
                af    == apply_filter(h1, rid, prev_row, filter_type, channels)
                cr    == composite_row(result, out_offset, af.heap[rid], channels,
                                       width, row_bytes,
                                       IF palette = None THEN <<>> ELSE palette[1],
                                       IF alpha_table = None THEN <<>> ELSE alpha_table[1])
                ends  == IF af.error # "none" THEN af.error ELSE cr.error
                call  == [filter_type |-> filter_type, raw |-> raw,
                          prev_id |-> prev_row, row_id |-> rid,
                          prev |-> heap[prev_row],
                          prev_after |-> af.heap[prev_row],
                          out |-> af.heap[rid]]
            IN  IF ends # "none"
                THEN /\ pc' = "failed"
                     /\ error' = ends
                     /\ filter_calls' = IF af.error = "none"
                                        THEN Append(filter_calls, call)
                                        ELSE filter_calls
                     /\ UNCHANGED <<decompressed, channels, row_bytes, result,
                                    offset, out_offset, alpha_table, row, heap,
                                    row_data, prev_row, composited, returned>>
                ELSE /\ pc' = pc
                     /\ error' = error
                     /\ heap' = af.heap
                     /\ row_data' = rid
                     /\ prev_row' = next_prev_row(rid, prev_row)
                     /\ offset' = offset + 1 + row_bytes
                     /\ result' = cr.result
                     /\ out_offset' = cr.out_offset
                     /\ row' = row + 1
                     /\ filter_calls' = Append(filter_calls, call)
                     /\ UNCHANGED <<decompressed, channels, row_bytes, alpha_table,
                                    composited, returned>>
    /\ step' = "row"
    /\ UNCHANGED <<stream, pos, headerVars, idat_chunks, palette, transparency,
                   chunk>>

\* Lines 159-167: the transparency pass; to_rgb returns bytes(result).
ToRgbFinish ==
    /\ UNCHANGED <<filterVars, pdfVars, convertVars, queueVars>>
    /\ pc = "rows"
    /\ row >= height
    /\ composited' = result
    /\ result' = transparency_pass(result, channels, transparency, width * height)
    /\ returned' = Some(result')
    /\ pc' = "decoded"
    /\ UNCHANGED <<decompressed, channels, row_bytes, offset, out_offset,
                   alpha_table, row, heap, row_data, prev_row, filter_calls>>
    /\ step' = "finish"
    /\ UNCHANGED <<stream, pos, error, headerVars, idat_chunks, palette,
                   transparency, chunk>>

DecodeNext ==
    \/ LoadSignature
    \/ LoadChunk
    \/ LoadChecks
    \/ ToRgbBegin
    \/ ToRgbRow
    \/ ToRgbFinish

----------------------------------------------------------------------------
(* apply_filter on its own: one call on a row and a previous row.          *)

\* The call: row is bytearray 1 and prev_row bytearray 0 of a heap of two.
ApplyFilterCall ==
    /\ UNCHANGED <<pngVars, rgbVars, pdfVars, convertVars, queueVars>>
    /\ f_pc = "call"
    /\ LET af == apply_filter((0 :> f_prev) @@ (1 :> f_row), 1, 0, f_type, f_bpp)
       IN  /\ f_out' = [error |-> af.error, row |-> af.heap[1], prev |-> af.heap[0]]
           /\ f_pc' = "returned"
    /\ UNCHANGED <<f_type, f_row, f_prev, f_bpp>>

----------------------------------------------------------------------------
(* The driver: convert_png, and the flag check of main in front of it.     *)

\* The paths a conversion is asked for: with the suffix of a PNG file, with
\* the suffix of a PDF file, and without suffix.
Paths == {"fig.png", "fig.pdf", "fig"}

\* path.with_suffix(".pdf"): the last suffix, if any, replaced by ".pdf".
with_suffix_pdf(p) == "fig.pdf"

\* A driver that deletes whenever asked to, written or not.
after_stat_flat(ap, rm) ==
    IF ap THEN "write" ELSE IF rm THEN "unlink" ELSE "return"

\* Line 276: what follows path.stat(): the branch of apply, or the return.
after_stat(ap, rm) == IF ap THEN "write" ELSE "return"

\* Line 279: what follows the write: the branch of remove_original, or the return.
after_write(rm) == IF rm THEN "unlink" ELSE "return"

\* Lines 318-319 and 323-324 of main: the flags and the path are checked
\* before convert_png is called.
MainCheck ==
    /\ UNCHANGED <<pngVars, rgbVars, filterVars, pdfVars, queueVars>>
    /\ c_pc = "main"
    /\ c_pc' = IF remove_original /\ ~apply THEN "exit"
               ELSE IF files[path] = None THEN "exit"
               ELSE "call"
    /\ UNCHANGED <<path, apply, remove_original, files, pdf_path, original_size,
                   pdf_bytes, convert_result, files_before, file_ops>>

\* Lines 270-271 and 44: PngImage(path), and load opening the file.
ConvertCall ==
    /\ UNCHANGED <<rgbVars, filterVars, pdfVars, queueVars>>
    /\ c_pc = "call"
    /\ width' = 0 /\ height' = 0 /\ bit_depth' = 0 /\ color_type' = 0
    /\ compression' = 0 /\ filter_method' = 0 /\ interlace' = 0
    /\ idat_chunks' = <<>> /\ palette' = None /\ transparency' = None
    /\ pos' = 0 /\ step' = "none" /\ chunk' = None
    /\ IF files[path] = None
       THEN /\ c_pc' = "raised"
            /\ error' = "FileNotFoundError"
            /\ UNCHANGED <<stream, pc>>
       ELSE /\ c_pc' = "decode"
            /\ stream' = files[path][1]
            /\ pc' = "signature"
            /\ error' = "none"
    /\ UNCHANGED <<path, apply, remove_original, files, pdf_path, original_size,
                   pdf_bytes, convert_result, files_before, file_ops>>

\* An exception of load or to_rgb leaves convert_png.
ConvertRaise ==
    /\ UNCHANGED <<pngVars, rgbVars, filterVars, pdfVars, queueVars>>
    /\ c_pc = "decode"
    /\ pc = "failed"
    /\ c_pc' = "raised"
    /\ UNCHANGED <<path, apply, remove_original, files, pdf_path, original_size,
                   pdf_bytes, convert_result, files_before, file_ops>>

\* Line 273: make_pdf is called with what to_rgb returned.
ConvertBuild ==
    /\ UNCHANGED <<pngVars, rgbVars, filterVars, queueVars>>
    /\ c_pc = "decode"
    /\ pc = "decoded"
    /\ c_pc' = "build"
    /\ pdf_pc' = "start"
    /\ rgb' = returned[1]
    /\ pdf_width' = width
    /\ pdf_height' = height
    /\ UNCHANGED <<image_stream, objects, xref_positions, output, xref_start,
                   xref_written>>
    /\ UNCHANGED <<path, apply, remove_original, files, pdf_path, original_size,
                   pdf_bytes, convert_result, files_before, file_ops>>

\* Lines 273-276: make_pdf has returned; the size of the source is taken.
ConvertStat ==
    /\ UNCHANGED <<pngVars, rgbVars, filterVars, pdfVars, queueVars>>
    /\ c_pc = "build"
    /\ pdf_pc = "done"
    /\ pdf_bytes' = output
    /\ original_size' = Len(files[path][1])
    /\ c_pc' = after_stat(apply, remove_original)
    /\ UNCHANGED <<path, apply, remove_original, files, pdf_path, convert_result,
                   files_before, file_ops>>

\* Lines 277-278: the document is written next to the source; the write may
\* fail, leaving the target as it was, or empty.
ConvertWrite ==
    /\ UNCHANGED <<pngVars, rgbVars, filterVars, pdfVars, queueVars>>
    /\ c_pc = "write"
    /\ pdf_path' = with_suffix_pdf(path)
    /\ \/ /\ files' = (pdf_path' :> Some(pdf_bytes)) @@ files
          /\ file_ops' = Append(file_ops, <<"write", pdf_path'>>)
          /\ c_pc' = after_write(remove_original)
       \/ /\ files' \in {files, (pdf_path' :> Some(<<>>)) @@ files}
          /\ file_ops' = Append(file_ops, <<"write failed", pdf_path'>>)
          /\ c_pc' = "raised"
    /\ UNCHANGED <<path, apply, remove_original, original_size, pdf_bytes,
                   convert_result, files_before>>

\* Line 280: the source is deleted.
ConvertUnlink ==
    /\ UNCHANGED <<pngVars, rgbVars, filterVars, pdfVars, queueVars>>
    /\ c_pc = "unlink"
    /\ files' = (path :> None) @@ files
    /\ file_ops' = Append(file_ops, <<"unlink", path>>)
    /\ c_pc' = "return"
    /\ UNCHANGED <<path, apply, remove_original, pdf_path, original_size, pdf_bytes,
                   convert_result, files_before>>

\* Line 282.
ConvertReturn ==
    /\ UNCHANGED <<pngVars, rgbVars, filterVars, pdfVars, queueVars>>
    /\ c_pc = "return"
    /\ convert_result' = Some(<<original_size, Len(pdf_bytes)>>)
    /\ c_pc' = "returned"
    /\ UNCHANGED <<path, apply, remove_original, files, pdf_path, original_size,
                   pdf_bytes, files_before, file_ops>>

ConvertNext ==
    \/ MainCheck
    \/ ConvertCall
    \/ ConvertRaise
    \/ ConvertBuild
    \/ ConvertStat
    \/ ConvertWrite
    \/ ConvertUnlink
    \/ ConvertReturn

----------------------------------------------------------------------------
(* The actor and the learner: run_actor, run_learner, parameters_queue.    *)

\* 02_actor.py
MAX_EPISODES == 5

MAX_STEPS_PER_EPISODE == 20

\* 03_learner.py
SEND_EVERY == 10

\* mp.Queue(maxsize=2): the capacity of parameters_queue
PARAMETERS_MAXSIZE == 2

\* The training steps a run of the learner is followed for.
MaxTrainingSteps == 30

\* parameters_queue holds maxsize items: put_nowait raises Full when as many
\* were put and not yet got, wherever they are on their way.
queue_full(buffer, pipe) == Len(buffer) + Len(pipe) >= PARAMETERS_MAXSIZE

\* 02_actor.py lines 49-58 and 122-132: the next episode begins, or the
\* episode loop is left and run_actor finishes.
ActorEpisode ==
    /\ UNCHANGED <<pngVars, rgbVars, filterVars, pdfVars, convertVars>>
    /\ a_pc = "episode"
    /\ IF episode < MAX_EPISODES /\ ~shutdown_event
       THEN /\ episode' = episode + 1
            /\ a_pc' = "step"
       ELSE /\ a_pc' = "finished"
            /\ UNCHANGED episode
    /\ actor_step' = 0
    /\ done' = FALSE
    /\ UNCHANGED <<actor_params, actor_updated, l_pc, training_step, enough_data,
                   transitions_queue, parameters_buffer, parameters_pipe,
                   shutdown_event, last_sent>>

\* 02_actor.py lines 60-115: one iteration of the step loop. get_nowait takes
\* the item at the head of the queue, if one has arrived.
ActorStep ==
    /\ UNCHANGED <<pngVars, rgbVars, filterVars, pdfVars, convertVars>>
    /\ a_pc = "step"
    /\ actor_step < MAX_STEPS_PER_EPISODE /\ ~shutdown_event /\ ~done
    /\ IF parameters_pipe # <<>>
       THEN /\ actor_params' = Head(parameters_pipe)
            /\ parameters_pipe' = Tail(parameters_pipe)
            /\ actor_updated' = Some([loaded |-> Head(parameters_pipe),
                                      latest |-> last_sent])
       ELSE /\ actor_updated' = None
            /\ UNCHANGED <<actor_params, parameters_pipe>>
    /\ actor_step' = actor_step + 1
    /\ done' \in BOOLEAN
    /\ UNCHANGED <<a_pc, episode, l_pc, training_step, enough_data,
                   transitions_queue, parameters_buffer, shutdown_event,
                   last_sent>>

\* 02_actor.py lines 60 and 117-118: the step loop is left and the episode's
\* transitions are sent.
ActorSend ==
    /\ UNCHANGED <<pngVars, rgbVars, filterVars, pdfVars, convertVars>>
    /\ a_pc = "step"
    /\ actor_step >= MAX_STEPS_PER_EPISODE \/ shutdown_event \/ done
    /\ transitions_queue' = transitions_queue + 1
    /\ a_pc' = "episode"
    /\ UNCHANGED <<episode, actor_step, done, actor_params, actor_updated, l_pc,
                   training_step, enough_data, parameters_buffer,
                   parameters_pipe, shutdown_event, last_sent>>

\* 03_learner.py lines 37-95: one iteration of the learner's loop: transitions
\* are received if there are any, a training step is made if the buffer holds
\* enough, and every SEND_EVERY steps the parameters are put, or dropped when
\* the queue is full.
LearnerIterate ==
    /\ UNCHANGED <<pngVars, rgbVars, filterVars, pdfVars, convertVars>>
    /\ l_pc = "loop"
    /\ ~shutdown_event
    /\ training_step < MaxTrainingSteps
    /\ \E got \in IF transitions_queue > 0 THEN BOOLEAN ELSE {FALSE} :
          /\ transitions_queue' = IF got THEN transitions_queue - 1
                                  ELSE transitions_queue
          /\ enough_data' \in IF got THEN {enough_data, TRUE} ELSE {enough_data}
    /\ IF enough_data'
       THEN /\ training_step' = training_step + 1
            /\ IF training_step' % SEND_EVERY = 0
                    /\ ~queue_full(parameters_buffer, parameters_pipe)
               THEN /\ parameters_buffer' = Append(parameters_buffer, training_step')
                    /\ last_sent' = training_step'
               ELSE UNCHANGED <<parameters_buffer, last_sent>>
       ELSE UNCHANGED <<training_step, parameters_buffer, last_sent>>
    /\ UNCHANGED <<a_pc, episode, actor_step, done, actor_params, actor_updated,
                   l_pc, parameters_pipe, shutdown_event>>

\* 03_learner.py lines 37 and 97: the loop is left once the event is set.
LearnerFinish ==
    /\ UNCHANGED <<pngVars, rgbVars, filterVars, pdfVars, convertVars>>
    /\ l_pc = "loop"
    /\ shutdown_event
    /\ l_pc' = "finished"
    /\ UNCHANGED <<a_pc, episode, actor_step, done, actor_params, actor_updated,
                   training_step, enough_data, transitions_queue,
                   parameters_buffer, parameters_pipe, shutdown_event, last_sent>>

\* The feeder thread of parameters_queue hands the oldest item put over to
\* the pipe the actor reads from.
QueueFeed ==
    /\ UNCHANGED <<pngVars, rgbVars, filterVars, pdfVars, convertVars>>
    /\ parameters_buffer # <<>>
    /\ parameters_pipe' = Append(parameters_pipe, Head(parameters_buffer))
    /\ parameters_buffer' = Tail(parameters_buffer)
    /\ UNCHANGED <<a_pc, episode, actor_step, done, actor_params, actor_updated,
                   l_pc, training_step, enough_data, transitions_queue,
                   shutdown_event, last_sent>>

\* 04_hil_serl.py lines 126-127: the actor has finished; the event is set.
MainJoin ==
    /\ UNCHANGED <<pngVars, rgbVars, filterVars, pdfVars, convertVars>>
    /\ a_pc = "finished"
    /\ ~shutdown_event
    /\ shutdown_event' = TRUE
    /\ UNCHANGED <<a_pc, episode, actor_step, done, actor_params, actor_updated,
                   l_pc, training_step, enough_data, transitions_queue,
                   parameters_buffer, parameters_pipe, last_sent>>

QueueNext ==
    \/ ActorEpisode
    \/ ActorStep
    \/ ActorSend
    \/ LearnerIterate
    \/ LearnerFinish
    \/ QueueFeed
    \/ MainJoin

----------------------------------------------------------------------------
(* Inputs.                                                                 *)

\* A chunk as it lies in the file: length, tag, payload, 4 checksum bytes.
Chunk(tag, data, crc) == U32(Len(data)) \o tag \o data \o crc

\* The 13-byte payload of a header chunk: struct.pack(">IIBBBBB", ...).
IhdrData(w, h, depth, ctype, comp, fm, lace) ==
    U32(w) \o U32(h) \o <<depth, ctype, comp, fm, lace>>

Crc0 == <<0, 0, 0, 0>>

File(chunks) == PNG_SIGNATURE \o Concat(chunks)

\* Sample bytes; a payload is a run of them starting at a seed.
Samples == <<0, 1, 255, 128, 200, 2, 254, 127>>

Payload(seed, n) == [i \in 1..n |-> Samples[((seed + i - 1) % Len(Samples)) + 1]]

Seeds == 0..(Len(Samples) - 1)

FilterTypes == 0..5

ChannelsOf(ctype) == IF ctype = 3 THEN 1 ELSE IF ctype = 2 THEN 3 ELSE 4

\* A run of palette indices 0..MaxPalette (the last one past the palette of
\* MaxPalette entries) starting at a seed.
IndexPayload(seed, n) == [i \in 1..n |-> (seed + i - 1) % (MaxPalette + 1)]

\* h rows of w pixels: the first row with filter type f0, the others with f1.
RawRows(w, h, ch, seed, f0, f1) ==
    Concat([k \in 1..h |->
              <<IF k = 1 THEN f0 ELSE f1>>
                  \o (IF ch = 1 THEN IndexPayload(seed + 3 * (k - 1), w)
                      ELSE Payload(seed + 3 * (k - 1), w * ch))])

\* A palette of n entries, as PLTE payload.
PaletteData(n) ==
    Concat([k \in 1..n |-> <<(200 * k) % 256, (20 * k) % 256, (30 * k) % 256>>])

\* The transparency payloads tried with each colour mode.
TrnsChoices(ctype) ==
    IF ctype = 3 THEN {<<>>, <<0>>, <<128, 0, 64>>, <<255, 77>>}
    ELSE IF ctype = 2 THEN {<<>>, <<0, 1, 255>>, <<1, 255, 128, 9, 9, 9>>, <<0, 1>>, <<0>>}
    ELSE {<<0, 1, 255>>, <<127, 0, 1, 255>>}

\* A file of chunks IHDR, [PLTE], [tRNS], IDAT, IEND around a pixel stream.
ImageFile(w, h, ctype, pal, trns, raw) ==
    File(<<Chunk(IHDR, IhdrData(w, h, 8, ctype, 0, 0, 0), Crc0)>>
         \o (IF pal = None THEN <<>> ELSE <<Chunk(PLTE, pal[1], Crc0)>>)
         \o (IF trns = None THEN <<>> ELSE <<Chunk(tRNS, trns[1], Crc0)>>)
         \o <<Chunk(IDAT, ZlibCompress(raw), Crc0), Chunk(IEND, <<>>, Crc0)>>)

\* Well-formed images of every colour mode, size, filter type and sample run.
PixelFiles ==
    { ImageFile(w, h, ctype,
                IF ctype = 3 THEN Some(PaletteData(MaxPalette)) ELSE None,
                trns,
                RawRows(w, h, ChannelsOf(ctype), seed, f0, f1)) :
        w \in 1..MaxWidth, h \in 1..MaxHeight, ctype \in {2, 3, 6},
        seed \in Seeds, f0 \in FilterTypes, f1 \in {0, 2, 4},
        trns \in {None} \cup {Some(t) : t \in {<<0, 1, 255>>, <<0>>}} }

\* Images whose pixel stream lacks its last bytes, or holds one byte too many.
ShortFilesOf(ctype) ==
    { ImageFile(w, h, ctype,
                IF ctype = 3 THEN Some(PaletteData(MaxPalette)) ELSE None,
                trns,
                LET raw == RawRows(w, h, ChannelsOf(ctype), seed, f0, 0) \o <<0>>
                IN  SubSeq(raw, 1, Max(0, Len(raw) - 1 - short))) :
        w \in 0..MaxWidth, h \in 0..MaxHeight,
        seed \in {0, 5}, f0 \in {0, 1, 3}, short \in (0 - 1)..MaxShort,
        trns \in {None} \cup {Some(t) : t \in TrnsChoices(ctype)} }

ShortFiles == ShortFilesOf(2) \cup ShortFilesOf(3) \cup ShortFilesOf(6)

\* Indexed images of one pixel: every palette size, transparency length and index.
PaletteFiles ==
    { ImageFile(1, 1, 3, pal, trns, <<0, index>>) :
        pal \in {None} \cup {Some(SubSeq(PaletteData(MaxPalette + 1), 1, n)) :
                              n \in 0..(3 * MaxPalette + 1)},
        trns \in {None} \cup {Some(t) : t \in TrnsChoices(3)},
        index \in 0..(MaxPalette + 1) }
    \cup
    { ImageFile(1, 1, 3, Some(PaletteData(n)), None, <<0, index>>) :
        n \in {256, 257}, index \in {0, 255} }

\* One-pixel images with every combination of header fields, header payload
\* sizes 12 to 14, and with or without header, palette and data chunks.
HeaderFiles ==
    { File((IF hasHdr
            THEN <<Chunk(IHDR, SubSeq(IhdrData(1, 1, depth, ctype, comp, fm, lace)
                                          \o <<0>>, 1, hlen), Crc0)>>
            ELSE <<>>)
           \o (IF hasPal THEN <<Chunk(PLTE, PaletteData(1), Crc0)>> ELSE <<>>)
           \o (IF hasData
               THEN <<Chunk(IDAT, ZlibCompress(<<0>> \o Payload(0, ChannelsOf(ctype))),
                            Crc0)>>
               ELSE <<>>)
           \o <<Chunk(IEND, <<>>, Crc0)>>) :
        depth \in {8, 16}, ctype \in {0, 2, 3, 4, 6}, comp \in {0, 1},
        fm \in {0, 1}, lace \in {0, 1}, hlen \in 12..14,
        hasHdr \in BOOLEAN, hasPal \in BOOLEAN, hasData \in BOOLEAN }

\* b"tEXt", a tag the loop does not know
tEXt == <<116, 69, 88, 116>>

\* A 2x1 truecolor image whose pixel stream is split over two data chunks.
SplitRaw == <<1>> \o Payload(4, 6)

\* The chunks a structured file is put together from.
Menu ==
    LET z == ZlibCompress(SplitRaw)
    IN  << Chunk(IHDR, IhdrData(2, 1, 8, 2, 0, 0, 0), Crc0),
           Chunk(IDAT, SubSeq(z, 1, 9), Crc0),
           Chunk(IDAT, SubSeq(z, 10, Len(z)), <<222, 173, 190, 239>>),
           Chunk(tEXt, <<104, 105>>, Crc0),
           Chunk(tRNS, <<200, 2, 254>>, Crc0),
           Chunk(IEND, <<>>, Crc0) >>

\* Files of up to 5 chunks of the menu, in any order, each at most once but
\* for the order-preserving picks below.
StructureFiles ==
    { File(<<Menu[a], Menu[b], Menu[c]>>) : a \in 1..6, b \in 1..6, c \in 1..6 }
    \cup
    { File(<<Menu[1], Menu[a], Menu[b], Menu[c], Menu[d]>>) :
        a \in 2..6, b \in 2..6, c \in 2..6, d \in 2..6 }

\* A well-formed file cut at every length, and files with a wrong signature.
TruncatedFiles ==
    LET f == File(<<Menu[1], Menu[5], Menu[2], Menu[3], Menu[6]>>)
    IN  { SubSeq(f, 1, n) : n \in 0..Len(f) }
        \cup { [f EXCEPT ![k] = (f[k] + 1) % 256] : k \in 1..8 }

\* The checksums tried: zeros, arbitrary bytes, and bytes that read as a tag
\* or as a chunk length.
Checksums == {Crc0, <<222, 173, 190, 239>>, IEND, IDAT, <<0, 0, 0, 1>>}

\* The chunk c with its 4 checksum bytes replaced.
Rechecksum(c, crc) == SubSeq(c, 1, Len(c) - 4) \o crc

\* A 2x1 image with an unknown chunk, two data chunks, and a transparency and
\* a data chunk after the end marker; every chunk, or one of them, with each
\* of the checksums.
ChecksumFiles ==
    LET order == <<1, 4, 2, 3, 6, 5, 2>>
    IN  { File([k \in 1..Len(order) |->
                  IF which \in {0, k} THEN Rechecksum(Menu[order[k]], crc)
                  ELSE Menu[order[k]]]) :
            which \in 0..Len(order), crc \in Checksums }

Files ==
    PixelFiles \cup ShortFiles \cup PaletteFiles \cup HeaderFiles
        \cup StructureFiles \cup TruncatedFiles \cup ChecksumFiles

\* Filter types, rows and previous rows for apply_filter on its own.
FilterCallTypes == 0..6 \cup {255}

FilterBytes == {0, 1, 128, 255}

RECURSIVE SeqsUpTo(_, _)
\* The sequences over S of length at most n.
SeqsUpTo(S, n) ==
    IF n = 0 THEN {<<>>}
    ELSE LET shorter == SeqsUpTo(S, n - 1)
         IN  shorter \cup {Append(q, x) : q \in {t \in shorter : Len(t) = n - 1}, x \in S}

PrevRows(n) ==
    { [i \in 1..n |-> (start + (i - 1) * stride) % 256] :
        start \in {0, 100, 250}, stride \in {0, 2, 60} }

\* The RGB buffers, widths and heights for make_pdf on its own.
RgbBuffers == { Payload(seed, n) : seed \in {0, 3}, n \in 0..MaxRgbLen }

PdfSizes == {0, 1, 2, 9, 10, 99, 100, 2147483647}

----------------------------------------------------------------------------
(* Specifications.                                                         *)

RgbIdle ==
    /\ decompressed = <<>> /\ channels = 0 /\ row_bytes = 0 /\ result = <<>>
    /\ offset = 0 /\ out_offset = 0 /\ alpha_table = None /\ row = 0
    /\ heap = <<>> /\ row_data = 0 /\ prev_row = 0 /\ filter_calls = <<>>
    /\ composited = <<>> /\ returned = None

PngIdle ==
    /\ stream = <<>> /\ pos = 0 /\ pc = "idle" /\ error = "none"
    /\ step = "none" /\ chunk = None
    /\ PngInit

FilterIdle ==
    /\ f_pc = "idle" /\ f_type = 0 /\ f_row = <<>> /\ f_prev = <<>>
    /\ f_bpp = 1 /\ f_out = None

PdfIdle ==
    /\ pdf_pc = "idle" /\ rgb = <<>> /\ pdf_width = 0 /\ pdf_height = 0
    /\ image_stream = <<>> /\ objects = <<>> /\ xref_positions = <<>>
    /\ output = <<>> /\ xref_start = 0 /\ xref_written = 0

QueueIdle ==
    /\ a_pc = "idle" /\ episode = 0 /\ actor_step = 0 /\ done = FALSE
    /\ actor_params = 0 /\ actor_updated = None
    /\ l_pc = "idle" /\ training_step = 0 /\ enough_data = FALSE
    /\ transitions_queue = 0
    /\ parameters_buffer = <<>> /\ parameters_pipe = <<>>
    /\ shutdown_event = FALSE /\ last_sent = 0

ConvertIdle ==
    /\ c_pc = "idle" /\ path = "" /\ apply = FALSE /\ remove_original = FALSE
    /\ files = <<>> /\ pdf_path = "" /\ original_size = 0 /\ pdf_bytes = <<>>
    /\ convert_result = None /\ files_before = <<>> /\ file_ops = <<>>

\* Decoding a file: PngImage(path), load(), to_rgb().
Init ==
    /\ stream \in Files
    /\ pos = 0 /\ pc = "signature" /\ error = "none"
    /\ step = "none" /\ chunk = None
    /\ PngInit
    /\ RgbIdle /\ FilterIdle /\ PdfIdle /\ ConvertIdle /\ QueueIdle

Next == DecodeNext

Spec == Init /\ [][Next]_vars

\* apply_filter on its own.
FilterInit ==
    /\ f_pc = "call"
    /\ f_type \in FilterCallTypes
    /\ f_bpp \in {1, 3, 4}
    /\ f_row \in SeqsUpTo(FilterBytes, MaxRowLen)
    /\ f_prev \in PrevRows(Len(f_row))
    /\ f_out = None
    /\ PngIdle /\ RgbIdle /\ PdfIdle /\ ConvertIdle /\ QueueIdle

FilterNext == ApplyFilterCall

SpecFilter == FilterInit /\ [][FilterNext]_vars

\* make_pdf on its own.
PdfInit ==
    /\ pdf_pc = "start"
    /\ rgb \in RgbBuffers
    /\ pdf_width \in PdfSizes
    /\ pdf_height \in PdfSizes
    /\ image_stream = <<>> /\ objects = <<>> /\ xref_positions = <<>>
    /\ output = <<>> /\ xref_start = 0 /\ xref_written = 0
    /\ PngIdle /\ RgbIdle /\ FilterIdle /\ ConvertIdle /\ QueueIdle

PdfNext == MakePdfNext

SpecPdf == PdfInit /\ [][PdfNext]_vars

\* The files conversions are run on: a well-formed image cut at every length
\* or with a wrong signature, and one-pixel indexed images with every palette.
ConvertFiles == TruncatedFiles \cup PaletteFiles

\* What lies at path.with_suffix(".pdf") beforehand: nothing, or an older file.
OlderFile == <<37, 80, 68, 70>>

\* convert_png on a path, called by main or directly, with every combination
\* of the flags; the source may be missing.
ConvertInit ==
    /\ c_pc \in {"main", "call"}
    /\ path \in Paths
    /\ apply \in BOOLEAN
    /\ remove_original \in BOOLEAN
    /\ \E source \in {None} \cup {Some(f) : f \in ConvertFiles},
          older \in {None, Some(OlderFile)} :
          files = (path :> source) @@ (with_suffix_pdf(path) :> older)
    /\ files_before = files
    /\ pdf_path = "" /\ original_size = 0 /\ pdf_bytes = <<>>
    /\ convert_result = None /\ file_ops = <<>>
    /\ PngIdle /\ RgbIdle /\ FilterIdle /\ PdfIdle /\ QueueIdle

ConvertAllNext ==
    \/ ConvertNext
    \/ DecodeNext
    \/ MakePdfNext

SpecConvert == ConvertInit /\ [][ConvertAllNext]_vars

\* The actor and the learner started by 04_hil_serl.py on empty queues; the
\* learner starts with or without enough data to train on.
QueueInit ==
    /\ a_pc = "episode" /\ episode = 0 /\ actor_step = 0 /\ done = FALSE
    /\ actor_params = 0 /\ actor_updated = None
    /\ l_pc = "loop" /\ training_step = 0
    /\ enough_data \in BOOLEAN
    /\ transitions_queue = 0
    /\ parameters_buffer = <<>> /\ parameters_pipe = <<>>
    /\ shutdown_event = FALSE /\ last_sent = 0
    /\ PngIdle /\ RgbIdle /\ FilterIdle /\ PdfIdle /\ ConvertIdle

SpecQueue == QueueInit /\ [][QueueNext]_vars

----------------------------------------------------------------------------
(* The document builder's cross-reference table (C1).                      *)

\* The bytes object n takes in the output: marker, body, "\nendobj\n".
ObjSpan(n) == Len(Str(n)) + Len(OBJ) + Len(objects[n]) + Len(ENDOBJ)

RECURSIVE SpansBefore(_)
\* The bytes of the objects numbered below n.
SpansBefore(n) == IF n <= 1 THEN 0 ELSE SpansBefore(n - 1) + ObjSpan(n - 1)

\* The offset at which the marker of object n lies in a document laid out as
\* header, object 1, object 2, ...
MarkerAt(n) == Len(PDF_HEADER) + SpansBefore(n)

\* The offset at which the cross-reference section lies.
XrefAt == MarkerAt(Len(objects) + 1)

\* The 10 characters of the n-th in-use entry of the cross-reference section,
\* read from the output: the entries are 20 bytes each and follow the section's
\* head line and the free entry.
XrefEntryDigits(n) ==
    LET at == XrefAt + Len(xref_head(objects)) + Len(FREE_ENTRY) + 20 * (n - 1)
    IN  Slice(output, at, at + 10)

\* C1: in every document make_pdf returns, for every object number n in 1..5
\* the offset recorded in the n-th in-use cross-reference entry is the byte
\* position at which the marker "<n> 0 obj" written for object n begins.
C1_XrefOffsetsPointAtMarkers ==
    pdf_pc = "done" =>
        /\ Len(objects) = 5
        /\ \A n \in 1..5 :
            LET p == ParseDec(XrefEntryDigits(n))
            IN  /\ p = MarkerAt(n)
                /\ Slice(output, p, p + Len(obj_marker(n))) = obj_marker(n)

\* A returned document of a non-empty buffer with a two-digit width, whose
\* objects lie at increasing offsets.
C1_Witness ==
    /\ pdf_pc = "done"
    /\ rgb # <<>>
    /\ pdf_width = 10
    /\ xref_positions[5] > xref_positions[4]
    /\ ParseDec(XrefEntryDigits(5)) > 400

----------------------------------------------------------------------------
(* The decoder's result and failures (C2, C3).                             *)

\* C2: whenever decoding returns a pixel buffer, the buffer holds exactly
\* width * height * 3 bytes.
C2_BufferLength ==
    pc = "decoded" => Len(returned[1]) = width * height * 3

\* C3: every failure of decoding is one of the six declared error kinds.
C3_OnlyDeclaredErrors ==
    pc = "failed" => error \in DeclaredErrors

----------------------------------------------------------------------------
(* Alpha over white (C4).                                                  *)

\* The value the claim gives for a channel c under alpha a.
ClaimedBlend(c, a) == (c * a + 255 * (255 - a) + 127) \div 255

\* v is the integer nearest to (c*a + 255*(255-a)) / 255 and a byte.
NearestByte(v, c, a) ==
    /\ v \in 0..255
    /\ 2 * Abs(255 * v - (c * a + 255 * (255 - a))) < 255

\* The pixel the claim gives for colour rgbv under alpha a.
ClaimedPixel(rgbv, a) ==
    IF a = 255 THEN rgbv
    ELSE IF a = 0 THEN <<255, 255, 255>>
    ELSE [i \in 1..3 |-> ClaimedBlend(rgbv[i], a)]

\* Colour and alpha of pixel px (0-based) of the reconstructed row rowbuf.
SourcePixel(rowbuf, px) ==
    IF channels = 4
    THEN [rgbv |-> SubSeq(rowbuf, 4 * px + 1, 4 * px + 3), a |-> rowbuf[4 * px + 4]]
    ELSE LET index == rowbuf[px + 1]
         IN  [rgbv |-> palette[1][index + 1],
              a    |-> IF transparency # None /\ index + 1 <= Len(transparency[1])
                       THEN transparency[1][index + 1] ELSE 255]

\* The bytes of output pixel g (0-based) of a buffer.
OutPixel(buf, g) == Slice(buf, 3 * g, 3 * g + 3)

\* C4: every output pixel of a truecolor+alpha or indexed image is (r,g,b)
\* when its alpha is 255, white when it is 0, and otherwise per channel
\* (c*a + 255*(255-a) + 127) div 255, which is the nearest integer to
\* (c*a + 255*(255-a))/255 and lies in 0..255 (200 under alpha 128 gives 227).
C4_AlphaOverWhite ==
    /\ ClaimedBlend(200, 128) = 227
    /\ (pc \in {"rows", "decoded"} /\ channels \in {1, 4}) =>
        \A k \in 1..row : \A px \in 0..(width - 1) :
            LET src == SourcePixel(filter_calls[k].out, px)
                out == OutPixel(result, (k - 1) * width + px)
            IN  /\ out = ClaimedPixel(src.rgbv, src.a)
                /\ src.a \notin {0, 255} =>
                      \A i \in 1..3 : NearestByte(out[i], src.rgbv[i], src.a)

\* A decoded indexed image whose palette colour 200 under alpha 128 became 227,
\* next to a decoded truecolor+alpha image being one of the reachable states.
C4_Witness ==
    /\ pc = "decoded"
    /\ channels = 1
    /\ palette[1][1][1] = 200
    /\ transparency # None /\ transparency[1] # <<>> /\ transparency[1][1] = 128
    /\ width = 1 /\ height = 1
    /\ filter_calls[1].out[1] = 0
    /\ returned[1][1] = 227

----------------------------------------------------------------------------
(* The scanline filters (C5).                                              *)

\* The candidate among left, up, upLeft nearest to left + up - upLeft, the
\* first of them in that order when several are as near.
NearestCandidate(left, up, upLeft) ==
    LET p    == left + up - upLeft
        d(x) == Abs(p - x)
        m    == Min(d(left), Min(d(up), d(upLeft)))
    IN  IF d(left) = m THEN left ELSE IF d(up) = m THEN up ELSE upLeft

PredictorSamples == {0, 5, 10, 15, 20, 128, 255}

\* out is raw reconstructed under the filter type t against the previous row
\* prev: each byte is the raw byte plus the filter's prediction from the
\* reconstructed bytes, modulo 256.
Reconstructs(t, raw, prev, out, bpp) ==
    /\ Len(out) = Len(raw)
    /\ \A i \in 1..Len(raw) :
        LET left   == IF i > bpp THEN out[i - bpp] ELSE 0
            up     == prev[i]
            upLeft == IF i > bpp THEN prev[i - bpp] ELSE 0
        IN  out[i] = CASE t = 0 -> raw[i]
                       [] t = 1 -> (raw[i] + left) % 256
                       [] t = 2 -> (raw[i] + up) % 256
                       [] t = 3 -> (raw[i] + ((left + up) \div 2)) % 256
                       [] t = 4 -> (raw[i] + NearestCandidate(left, up, upLeft)) % 256

\* C5: apply_filter reconstructs the row in place by its filter type (0 none,
\* 1 left, 2 up, 3 floor of the mean of left and up, 4 the Paeth predictor,
\* all modulo 256, left being 0 for the first bpp bytes) and fails with
\* FilterTypeError for every other type; paeth_predictor returns the candidate
\* nearest to left+up-upLeft, ties going to left, then up, then upLeft.
C5_ApplyFilter ==
    /\ paeth_predictor(10, 20, 15) = 15
    /\ \A a \in PredictorSamples, b \in PredictorSamples, c \in PredictorSamples :
          paeth_predictor(a, b, c) = NearestCandidate(a, b, c)
    /\ f_pc = "returned" =>
          /\ f_out.prev = f_prev
          /\ IF f_type \in 0..4
             THEN /\ f_out.error = "none"
                  /\ Reconstructs(f_type, f_row, f_prev, f_out.row, f_bpp)
             ELSE /\ f_out.error = "FilterTypeError"
                  /\ f_out.row = f_row

\* A Paeth row whose third byte is predicted from its upper neighbour on a tie
\* with the upper-left one, and wraps around 256.
C5_Witness ==
    /\ f_pc = "returned"
    /\ f_type = 4
    /\ f_bpp = 1
    /\ Len(f_row) = 3
    /\ f_out.row # f_row
    /\ \E i \in 2..3 :
          LET left   == f_out.row[i - 1]
              up     == f_prev[i]
              upLeft == f_prev[i - 1]
          IN  /\ Abs(left - upLeft) = Abs(left + up - 2 * upLeft)
              /\ Abs(up - upLeft) > Abs(left - upLeft)
              /\ up # upLeft
              /\ f_row[i] + up >= 256

----------------------------------------------------------------------------
(* The previous row of the row loop (C6).                                  *)

\* C6: the previous row handed to apply_filter for row k >= 1 is the fully
\* reconstructed row k-1, in a buffer the reconstruction of row k does not
\* write; for row 0 it is width*channels zero bytes.
C6_PreviousRow ==
    \A k \in 1..Len(filter_calls) :
        LET call == filter_calls[k]
        IN  /\ call.prev_id # call.row_id
            /\ call.prev_after = call.prev
            /\ IF k = 1
               THEN call.prev = [i \in 1..(width * channels) |-> 0]
               ELSE call.prev = filter_calls[k - 1].out

\* The second row of an image, filtered against a first row whose
\* reconstruction differs from its filtered bytes.
C6_Witness ==
    /\ Len(filter_calls) >= 2
    /\ filter_calls[1].out # filter_calls[1].raw
    /\ filter_calls[2].filter_type \in 2..4
    /\ filter_calls[2].prev = filter_calls[1].out
    /\ filter_calls[2].out # filter_calls[2].raw

----------------------------------------------------------------------------
(* What load rejects and accepts (C7, C8).                                 *)

NoDataSeen == idat_chunks = <<>>

IndexedWithoutPalette == color_type = 3 /\ palette = None

UnsupportedHeader ==
    \/ bit_depth # 8
    \/ interlace # 0
    \/ compression # 0
    \/ filter_method # 0
    \/ color_type \notin {2, 3, 6}

\* load has returned normally.
LoadAccepted == pc \in {"loaded", "rows", "decoded"} \/ (pc = "failed" /\ step \in {"begin", "row"})

\* C7 as stated: after the chunk loop, load fails with MissingDataError when
\* no data chunk was seen or the image is indexed without a palette, and with
\* UnsupportedFormatError when a header field is outside the supported subset.
C7_Original ==
    step = "checks" =>
        /\ (NoDataSeen \/ IndexedWithoutPalette) =>
              (pc = "failed" /\ error = "MissingDataError")
        /\ UnsupportedHeader =>
              (pc = "failed" /\ error = "UnsupportedFormatError")

\* The kind the checks after the loop report: that of the first failing one.
FirstFailingCheck ==
    IF NoDataSeen THEN "MissingDataError"
    ELSE IF bit_depth # 8 \/ interlace # 0 \/ color_type \notin {2, 3, 6}
         THEN "UnsupportedFormatError"
    ELSE IF IndexedWithoutPalette THEN "MissingDataError"
    ELSE "none"

\* C7 (amended): a header chunk with compression or filter method other than
\* 0 makes load fail with UnsupportedFormatError when it is read; after the
\* chunk loop load fails with MissingDataError when no data chunk was seen,
\* else with UnsupportedFormatError when bit depth # 8, interlace # 0 or the
\* colour mode is not 2, 3 or 6, else with MissingDataError when the image is
\* indexed and has no palette; so every image load accepts has bit depth 8,
\* interlace 0, compression 0, filter method 0, colour mode 2, 3 or 6, a data
\* chunk, and a non-empty palette if indexed.
C7_LoadChecks ==
    /\ step = "checks" =>
          /\ error = FirstFailingCheck
          /\ pc = IF FirstFailingCheck = "none" THEN "loaded" ELSE "failed"
    /\ (compression # 0 \/ filter_method # 0) =>
          (pc = "failed" /\ step = "chunk" /\ error = "UnsupportedFormatError")
    /\ LoadAccepted =>
          /\ ~NoDataSeen
          /\ ~UnsupportedHeader
          /\ color_type = 3 => (palette # None /\ Len(palette[1]) > 0)

\* An interlaced image that comes with a data chunk and is otherwise fine,
\* rejected by the checks after the loop.
C7_Witness ==
    /\ step = "checks"
    /\ pc = "failed"
    /\ error = "UnsupportedFormatError"
    /\ ~NoDataSeen
    /\ bit_depth = 8 /\ color_type = 3 /\ palette # None
    /\ interlace = 1

\* C8: a header chunk whose payload is not 13 bytes, and a palette chunk whose
\* payload length is no multiple of 3 or holds 0 or more than 256 entries,
\* make load fail with MalformedChunkError.
C8_MalformedChunks ==
    (step = "chunk" /\ chunk # None) =>
        LET n == Len(chunk[1].data)
        IN  /\ (chunk[1].tag = IHDR /\ n # 13) =>
                  (pc = "failed" /\ error = "MalformedChunkError")
            /\ (chunk[1].tag = PLTE /\ (n % 3 # 0 \/ n \div 3 = 0 \/ n \div 3 > 256)) =>
                  (pc = "failed" /\ error = "MalformedChunkError")

----------------------------------------------------------------------------
(* Palette indices (C9).                                                   *)

\* The reconstructed row holds, among the pixels the row loop can reach, an
\* index that is no entry of the palette.
HasIndexOutOfRange(rowbuf) ==
    \E px \in 1..Min(width, Len(rowbuf)) : rowbuf[px] >= Len(palette[1])

\* C9: for an indexed image, to_rgb fails with PaletteIndexOutOfRangeError on
\* the first row that holds a pixel whose index is >= the number of palette
\* entries, returning no buffer; rows whose indices are all below the palette
\* size never raise this error.
C9_PaletteIndex ==
    /\ error = "PaletteIndexOutOfRangeError" =>
          /\ pc = "failed" /\ step = "row" /\ channels = 1
          /\ returned = None
          /\ filter_calls # <<>>
          /\ HasIndexOutOfRange(filter_calls[Len(filter_calls)].out)
    /\ channels = 1 =>
          \A k \in 1..Len(filter_calls) :
              HasIndexOutOfRange(filter_calls[k].out) =>
                  /\ k = Len(filter_calls)
                  /\ pc = "failed"
                  /\ error = "PaletteIndexOutOfRangeError"

\* The error raised in the second row of an image, at its second pixel, after
\* a first pixel with an index of the palette.
C9_Witness ==
    /\ error = "PaletteIndexOutOfRangeError"
    /\ Len(filter_calls) = 2
    /\ width = 2
    /\ filter_calls[2].out[1] < Len(palette[1])
    /\ filter_calls[2].out[2] >= Len(palette[1])

----------------------------------------------------------------------------
(* The transparency key of truecolor images (C10).                         *)

\* C10: for a truecolor image with a transparency chunk, to_rgb returns the
\* composited buffer with every pixel equal to the key triple (the first
\* three bytes of the chunk) replaced by white and every other pixel as it
\* was; for the other modes, and without a transparency chunk, it returns the
\* composited buffer unchanged.
C10_TransparencyKey ==
    pc = "decoded" =>
        IF channels = 3 /\ transparency # None
        THEN /\ Len(composited) = width * height * 3 =>
                    Len(returned[1]) = Len(composited)
             /\ \A g \in 0..(width * height - 1) :
                    3 * g + 3 <= Len(composited) =>
                        OutPixel(returned[1], g) =
                            IF /\ Len(transparency[1]) >= 3
                               /\ OutPixel(composited, g) = SubSeq(transparency[1], 1, 3)
                            THEN <<255, 255, 255>>
                            ELSE OutPixel(composited, g)
        ELSE returned[1] = composited

\* A decoded 2x2 truecolor image with a key: one pixel matched and turned
\* white, another one kept.
C10_Witness ==
    /\ pc = "decoded"
    /\ channels = 3
    /\ width = 2 /\ height = 2
    /\ Len(composited) = 12
    /\ transparency # None
    /\ Len(transparency[1]) >= 3
    /\ \E g \in 0..3 : /\ OutPixel(composited, g) = SubSeq(transparency[1], 1, 3)
                       /\ OutPixel(composited, g) # <<255, 255, 255>>
                       /\ OutPixel(returned[1], g) = <<255, 255, 255>>
    /\ \E g \in 0..3 : /\ OutPixel(composited, g) = OutPixel(returned[1], g)
                       /\ OutPixel(composited, g) # <<255, 255, 255>>


----------------------------------------------------------------------------
(* The chunk loop and the compressed pixel stream (C11).                   *)

RECURSIVE WholeChunksFrom(_, _)
\* The bytes of s from cursor p on are whole chunks: 4 length bytes, 4 tag
\* bytes, as many payload bytes as the length says, 4 checksum bytes.
WholeChunksFrom(s, p) ==
    IF p = Len(s) THEN TRUE
    ELSE IF p + 12 > Len(s) THEN FALSE
    ELSE LET n == UnpackU32(SubSeq(s, p + 1, p + 4))
         IN  p + 12 + n <= Len(s) /\ WholeChunksFrom(s, p + 12 + n)

\* A valid signature followed by a sequence of chunks.
IsChunkSequence(s) ==
    /\ Len(s) >= 8
    /\ SubSeq(s, 1, 8) = PNG_SIGNATURE
    /\ WholeChunksFrom(s, 8)

RECURSIVE TagsAndPayloads(_, _)
\* Tag and payload of the chunks of s from cursor p on, in file order; the
\* checksum bytes are stepped over and appear nowhere in the outcome.
TagsAndPayloads(s, p) ==
    IF p >= Len(s) THEN <<>>
    ELSE LET n == UnpackU32(SubSeq(s, p + 1, p + 4))
         IN  <<[tag  |-> SubSeq(s, p + 5, p + 8),
                data |-> SubSeq(s, p + 9, p + 8 + n)]>>
                 \o TagsAndPayloads(s, p + 12 + n)

\* The chunks in front of the first end marker (all of them without one).
BeforeEnd(chunks) ==
    LET ends == {k \in 1..Len(chunks) : chunks[k].tag = IEND}
    IN  IF ends = {} THEN chunks
        ELSE SubSeq(chunks, 1, (CHOOSE k \in ends : \A j \in ends : k <= j) - 1)

\* The payloads of the data chunks among chunks, in their order.
DataPayloads(chunks) ==
    LET data == SelectSeq(chunks, LAMBDA c : c.tag = IDAT)
    IN  [k \in 1..Len(data) |-> data[k].data]

\* The payload of the last chunk with the tag, None without such a chunk.
LastPayload(chunks, tag) ==
    LET with == SelectSeq(chunks, LAMBDA c : c.tag = tag)
    IN  IF with = <<>> THEN None ELSE Some(with[Len(with)].data)

KnownTags == {IHDR, IDAT, PLTE, tRNS, IEND}

parsedVars == <<headerVars, idat_chunks, palette, transparency>>

\* The chunk loop is over.
LoopOver ==
    /\ pc \notin {"signature", "chunks"}
    /\ ~(pc = "failed" /\ step \in {"signature", "chunk"})

\* What to_rgb inflates and what the loop has parsed, for a chunk sequence.
C11_StreamParts ==
    (IsChunkSequence(stream) /\ LoopOver) =>
        LET counted == BeforeEnd(TagsAndPayloads(stream, 8))
            inflated == ZlibDecompress(Concat(DataPayloads(counted)))
        IN  /\ idat_chunks = DataPayloads(counted)
            /\ transparency = LastPayload(counted, tRNS)
            /\ palette = IF LastPayload(counted, PLTE) = None THEN None
                         ELSE Some(palette_entries(LastPayload(counted, PLTE)[1]))
            /\ IF LastPayload(counted, IHDR) = None
               THEN width = 0 /\ height = 0 /\ bit_depth = 0 /\ color_type = 0
               ELSE LET header == unpack_ihdr(LastPayload(counted, IHDR)[1])
                    IN  /\ width = header.width /\ height = header.height
                        /\ bit_depth = header.bit_depth
                        /\ color_type = header.color_type
                        /\ interlace = header.interlace
            /\ (step = "begin" /\ pc = "failed") => error = inflated.error
            /\ pc \in {"rows", "decoded"} =>
                  /\ inflated.error = "none"
                  /\ step = "begin" => decompressed = inflated.data

\* A step that read a chunk with a tag the loop does not know changed nothing
\* and went on with the loop; a step after the loop reads nothing and changes
\* nothing of what was parsed.
C11_StepParts ==
    /\ (step' = "chunk" /\ pc = "chunks" /\ chunk' # None
            /\ chunk'[1].tag \notin KnownTags) =>
          /\ UNCHANGED parsedVars
          /\ pc' = "chunks" /\ error' = "none"
    /\ (pc \notin {"signature", "chunks"}) =>
          UNCHANGED <<parsedVars, pos>>

\* C11: for a sequence of chunks after a valid signature, to_rgb inflates the
\* concatenation, in file order, of the payloads of exactly the data chunks
\* in front of the end marker; the end marker stops the loop, so that no later
\* chunk changes what was parsed; a chunk with an unknown tag changes nothing;
\* the checksum bytes have no influence.
C11_ChunkLoop == [](C11_StreamParts) /\ [][C11_StepParts]_vars

\* A decoded image whose file has an unknown chunk, two data chunks, the end
\* marker, then a transparency and a data chunk, with checksum bytes that
\* read as a data tag.
C11_Witness ==
    /\ pc = "decoded"
    /\ IsChunkSequence(stream)
    /\ LET chunks == TagsAndPayloads(stream, 8)
       IN  /\ Len(chunks) = 7
           /\ Len(BeforeEnd(chunks)) = 4
           /\ chunks[2].tag = tEXt
           /\ chunks[6].tag = tRNS /\ chunks[7].tag = IDAT
           /\ SubSeq(stream, Len(stream) - 3, Len(stream)) = IDAT
    /\ Len(idat_chunks) = 2
    /\ transparency = None
    /\ returned # None

----------------------------------------------------------------------------
(* The document builder's trailer (C12).                                   *)

\* The ASCII digits.
DigitBytes == 48..57

RECURSIVE DigitsStart(_, _)
\* The offset at which the run of digits ending at offset e of the output
\* begins (e itself when no digit precedes e).
DigitsStart(out, e) ==
    IF e > 0 /\ out[e] \in DigitBytes THEN DigitsStart(out, e - 1) ELSE e

\* The trailer as it reads from the end of the output backwards: "\n%%EOF",
\* the digits of startxref, the text between, the digits of the size, the
\* text in front of them.
TrailerRead ==
    LET eofAt   == Len(output) - Len(EOF_MARK)
        startAt == DigitsStart(output, eofAt)
        midAt   == startAt - Len(TRAILER_B)
        sizeAt  == DigitsStart(output, midAt)
        headAt  == sizeAt - Len(TRAILER_A) - Len(TRAILER)
    IN  [at        |-> headAt,
         head      |-> Slice(output, headAt, sizeAt),
         size      |-> Slice(output, sizeAt, midAt),
         middle    |-> Slice(output, midAt, startAt),
         startxref |-> Slice(output, startAt, eofAt),
         tail      |-> Slice(output, eofAt, Len(output))]

\* b"xref"
XREF_KEYWORD == <<120, 114, 101, 102>>

\* The trailer has the form "trailer\n<< /Size S /Root 1 0 R >>\nstartxref\n
\* N\n%%EOF" with digits S and N, closes the output and follows the entries of
\* the cross-reference section; N is the offset at which the section begins.
TrailerFormAndStart ==
    LET t == TrailerRead
    IN  /\ t.head = TRAILER \o TRAILER_A
        /\ t.middle = TRAILER_B
        /\ t.tail = EOF_MARK
        /\ t.size # <<>> /\ t.startxref # <<>>
        /\ t.at = XrefAt + Len(xref_head(objects)) + Len(FREE_ENTRY)
                      + 20 * Len(objects)
        /\ ParseDec(t.startxref) = XrefAt
        /\ Slice(output, XrefAt, XrefAt + 4) = XREF_KEYWORD

\* The claim as worded: the size the trailer declares is the number of
\* objects of the fixed sequence, 5.
C12_Original ==
    pdf_pc = "done" =>
        /\ TrailerFormAndStart
        /\ ParseDec(TrailerRead.size) = 5

\* C12: in every document make_pdf returns, the trailer names object 1 as the
\* root, the size it declares is 6, the 5 objects of the fixed sequence and
\* the free entry 0, which is the entry count in the head of the
\* cross-reference section, and the number after "startxref" is the offset
\* in the output at which the "xref" keyword of that section begins.
C12_Trailer ==
    pdf_pc = "done" =>
        /\ TrailerFormAndStart
        /\ Len(objects) = 5
        /\ ParseDec(TrailerRead.size) = 6
        /\ Slice(output, XrefAt, XrefAt + Len(XREF_A) + 2) = XREF_A \o Str(6) \o NL

\* A returned document of a non-empty buffer whose cross-reference section
\* begins at a three-digit offset.
C12_Witness ==
    /\ pdf_pc = "done"
    /\ rgb # <<>>
    /\ pdf_height = 100
    /\ Len(TrailerRead.startxref) = 3
    /\ ParseDec(TrailerRead.startxref) = xref_start
    /\ xref_start > 500

----------------------------------------------------------------------------
(* The driver's writes and deletions (C13).                                *)

\* Decoding and document building have both succeeded.
DecodedAndBuilt == pc = "decoded" /\ error = "none" /\ pdf_pc = "done"

\* The conversion failed in load, to_rgb or before them.
ConversionFailed == c_pc = "raised" /\ pdf_pc # "done"

\* The k-th operation on the file system is a deletion.
IsUnlink(k) == file_ops[k][1] = "unlink"

\* What holds of the file system in every state of a conversion.
C13_FileSystem ==
    /\ file_ops # <<>> => DecodedAndBuilt /\ apply
    /\ ConversionFailed => files = files_before /\ file_ops = <<>>
    /\ \A k \in 1..Len(file_ops) :
          /\ file_ops[k][1] = "write" => files[with_suffix_pdf(path)] \in
                                            {Some(output), None}
          /\ IsUnlink(k) =>
                /\ k = 2
                /\ file_ops[1] = <<"write", with_suffix_pdf(path)>>
                /\ file_ops[2][2] = path
                /\ apply /\ remove_original
    /\ (files_before[path] # None /\ files[path] = None) =>
          \E k \in 1..Len(file_ops) : IsUnlink(k)
    /\ ~apply => files = files_before /\ file_ops = <<>>

\* The file system changes in the write and in the deletion only, the write
\* comes with a built document, and the deletion follows a completed write.
C13_Steps ==
    (files' # files \/ file_ops' # file_ops) =>
        /\ c_pc \in {"write", "unlink"}
        /\ DecodedAndBuilt /\ apply
        /\ c_pc = "unlink" =>
              /\ remove_original
              /\ files[with_suffix_pdf(path)] = Some(output)

\* C13: in convert_png, for every input and flag combination, the PDF is
\* written only after decoding and document building have both succeeded (a
\* failing conversion writes and deletes nothing); the source is deleted only
\* after the write has completed and only when apply and remove_original are
\* both set; and without apply no file is written or deleted.
C13_WriteThenDelete == [](C13_FileSystem) /\ [][C13_Steps]_vars

\* A conversion with both flags that returned: the document written over an
\* older file, then the source deleted.
C13_Witness ==
    /\ c_pc = "returned"
    /\ path = "fig.png"
    /\ apply /\ remove_original
    /\ files_before["fig.pdf"] = Some(OlderFile)
    /\ file_ops = <<<<"write", "fig.pdf">>, <<"unlink", "fig.png">>>>
    /\ files["fig.png"] = None
    /\ files["fig.pdf"] = Some(output)
    /\ convert_result = Some(<<Len(files_before["fig.png"][1]), Len(output)>>)

----------------------------------------------------------------------------
(* The parameters the actor loads (C14).                                   *)

\* C14: whenever the actor updates its policy parameters at the start of a
\* step, the parameters it loads are the most recent ones the learner has
\* sent so far.
C14_LoadsMostRecent ==
    actor_updated # None => actor_updated[1].loaded = actor_updated[1].latest
====
